---- MODULE Spec2Model ----
(***************************************************************************)
(* Model of src/app.py: the spreadsheet table locators / extractors, the   *)
(* labeled-value scans of create_word_report and the /upload handler.      *)
(*                                                                         *)
(* A sheet is a rectangular grid: a sequence of rows, every row a sequence *)
(* of cells of the same width.  Python indexes rows and columns from 0;    *)
(* the model keeps the source's 0-based indices in every result            *)
(* (header_idx, stop_idx, marker row) and converts at the point of access  *)
(* (RowAt).                                                               *)
(*                                                                         *)
(* A cell is absent (NaN / None), a number or a text.  Numbers are kept in *)
(* fixed point, in units of 10^-5 (3.14159 is 314159, 75.0 is 7500000).    *)
(***************************************************************************)
EXTENDS Integers, Sequences, FiniteSets, TLC

VARIABLES sheet, call, locals, ret, uploads, reports, response, assembled,
          printed,   \* the lines the last call wrote to standard output
          seen       \* per prefix, what the first extract_co_mapping call gave

vars == <<sheet, call, locals, ret, uploads, reports, response, assembled, printed, seen>>

(***************************************************************************)
(* Cells                                                                   *)
(***************************************************************************)
\* one unit of the fixed-point numbers: 10^-5
Unit == 10^5

NaN == [k |-> "nan", n |-> 0, s |-> ""]
Num(v) == [k |-> "num", n |-> v, s |-> ""]
Txt(t) == [k |-> "txt", n |-> 0, s |-> t]

\* pd.notna(x)
NotNa(c) == c.k # "nan"

(***************************************************************************)
(* Input sheets.  Every family is the set of all grids of 1..n rows drawn  *)
(* from a row vocabulary; the vocabularies hold the rows the locators and  *)
(* extractors distinguish.                                                 *)
(***************************************************************************)
MaxRows == 3

Width(df) == IF Len(df) = 0 THEN 0 ELSE Len(df[1])

\* the grids of lo .. hi rows drawn from rows
SeqsOf(rows, lo, hi) == UNION {[1..m -> rows] : m \in lo..hi}

E3 == <<NaN, NaN, NaN>>

\* rows of a "CO Attainment" sheet, around the CO-PO mapping table
PoRows ==
    { <<Txt("CO"), Txt("PO1"), Txt("PO2")>>,
      <<NaN, Txt(" co "), Txt(" po1")>>,
      <<Txt("CO"), Txt("PO1"), Txt("PO1")>>,
      <<Txt("CO1"), Txt("abc"), Num(333300)>>,
      <<NaN, Txt("2.5"), Num(314159)>>,
      E3,
      <<Txt("Overall CO Attainment : 2.8"), NaN, NaN>>,
      <<Txt("  overall co attainment"), Num(280000), NaN>>,
      <<NaN, Txt(" po attainment "), NaN>>,
      <<Txt("PO Attainment Table"), Num(100000), NaN>> }

\* rows of a "PSO Attainment" sheet
PsoRows ==
    { <<Txt("CO"), Txt("PSO1"), Txt("PSO2")>>,
      <<Txt("pso1"), Txt("PSO2"), Txt("PSO3")>>,
      <<Txt("Course Outcomes"), Txt("PSO1"), Txt("PSO2")>>,
      <<NaN, Txt("course outcomes (CO)"), Txt("Ps1")>>,
      <<Txt(" Course "), Num(200000), Num(312500)>>,
      <<Txt("CO1"), Num(266700), Txt("x")>>,
      <<Txt("PO Attainment"), NaN, NaN>> }

\* rows around the PO evaluation block (six columns, values from column 4 on)
EvalRows ==
    { <<Txt("Overall PO Attainment :"), NaN, NaN, NaN, NaN, NaN>>,
      <<Txt("CO"), NaN, NaN, NaN, NaN, Txt(" PO2 ")>>,
      <<Txt("po attainment"), Num(100000), NaN, NaN, Num(7500000), Txt(" n/a ")>> }

\* rows of the sheets the labeled-value scans read
ScanRows ==
    { <<Txt("Attainment Level"), Num(200000), Num(300000)>>,
      <<NaN, Txt("Target Level"), Num(150000)>>,
      <<Num(250000), Txt("Final attainment level"), Txt("2")>>,
      <<Txt("Attainment Level / Target Level / Final attainment level"), NaN, Txt("high")>>,
      <<Txt("attainment level"), Num(100000), NaN>> }

\* the CO-PO scenario: header at index 2, data at 3-5, stop row at 6
ScenarioPre == { E3, <<Txt("CO"), Txt("x"), Txt("PO1")>>, <<Txt("PO Attainment"), NaN, NaN>>,
                 <<Txt("Faculty Name"), Txt("A"), NaN>> }

ScenarioCoPo(r0, r1) ==
    << r0, r1,
       <<Txt("CO"), Txt("PO1"), Txt("PO2")>>,
       <<Txt("CO1"), Num(333300), Txt("x")>>,
       <<Txt("CO2"), Txt("-"), Num(266700)>>,
       <<Txt("Overall CO Attainment: 3.0"), NaN, NaN>>,
       <<Txt("PO Attainment"), NaN, NaN>> >>

\* the evaluation scenario: marker at row 10, header at 13, data at 14
E6 == <<NaN, NaN, NaN, NaN, NaN, NaN>>

ScenarioEval(r11, r12) ==
    [i \in 1..15 |->
        IF i = 11 THEN <<Txt("PO Attainment"), NaN, NaN, NaN, NaN, NaN>>
        ELSE IF i = 12 THEN r11
        ELSE IF i = 13 THEN r12
        ELSE IF i = 14 THEN <<Txt("CO"), Txt(""), Txt(""), Txt(""), Txt("PO1"), Txt("PO2")>>
        ELSE IF i = 15 THEN <<Txt("CO1"), Txt(""), Txt(""), Txt(""), Num(7500000), Num(8000000)>>
        ELSE E6]

ScenarioRows ==
    ScenarioPre
    \cup {ScenarioCoPo(E3, E3)[i] : i \in 1..7}
    \cup {ScenarioEval(E6, <<Txt("CO"), NaN, NaN, NaN, Txt("PO9"), NaN>>)[i] : i \in 1..15}

\* sheets of the uploaded workbooks.  CoSummary continues the scenario sheet
\* with the one-row PO attainment summary, CoCutShort ends at the header of
\* that summary, CoHeaderless and PsoHeaderless hold no CO-PO / CO-PSO header.
SummaryHeader == <<Txt("CO"), Txt("PO1"), Txt("PO2")>>

CoPlain == ScenarioCoPo(E3, E3)

CoSummary == CoPlain \o << SummaryHeader, <<Txt("CO1"), Txt("2.5"), NaN>> >>

CoCutShort == CoPlain \o << SummaryHeader >>

CoHeaderless == << <<Txt("CO1"), Txt("abc"), Num(333300)>>, <<NaN, Txt("2.5"), Num(314159)>> >>

PsoPlain == << <<Txt("CO"), Txt("PSO1"), Txt("PSO2")>>, <<Txt("CO1"), Num(266700), Txt("x")>> >>

PsoHeaderless ==
    << <<Txt("Course Outcomes"), Txt("PSO1"), Txt("PSO2")>>, <<Txt(" Course "), Num(200000), Num(312500)>> >>

\* a "PSO Attainment" sheet with a "Course" row in its data region
PsoCourseRow ==
    << <<Txt("CO"), Txt("PSO1"), Txt("PSO2")>>,
       <<Txt(" Course "), Num(200000), Num(312500)>>,
       <<Txt("CO1"), Num(266700), Txt("x")>> >>

AllRows == PoRows \cup PsoRows \cup EvalRows \cup ScanRows \cup ScenarioRows

ScenarioSheets ==
    {ScenarioCoPo(r0, r1) : r0 \in ScenarioPre, r1 \in ScenarioPre}
    \cup {ScenarioEval(r11, r12) : r11 \in {E6}, r12 \in {E6, <<Txt("CO"), NaN, NaN, NaN, Txt("PO9"), NaN>>}}

Sheets ==
    SeqsOf(PoRows, 1, MaxRows) \cup SeqsOf(PsoRows, 1, MaxRows)
    \cup SeqsOf(ScanRows, 1, MaxRows) \cup SeqsOf(EvalRows, 5, MaxRows + 2)
    \cup ScenarioSheets

(***************************************************************************)
(* Python str methods, on strings (Len, SubSeq and \o apply to them).      *)
(***************************************************************************)
LowerAlpha == "abcdefghijklmnopqrstuvwxyz"
UpperAlpha == "ABCDEFGHIJKLMNOPQRSTUVWXYZ"
Digits == "0123456789"

CharAt(s, i) == SubSeq(s, i, i)

\* index (1-based) of the one-character string c in alphabet a, 0 if absent
IndexIn(a, c) ==
    IF \E i \in 1..Len(a) : CharAt(a, i) = c
    THEN CHOOSE i \in 1..Len(a) : CharAt(a, i) = c
    ELSE 0

UpperChar(c) == IF IndexIn(LowerAlpha, c) > 0 THEN CharAt(UpperAlpha, IndexIn(LowerAlpha, c)) ELSE c
LowerChar(c) == IF IndexIn(UpperAlpha, c) > 0 THEN CharAt(LowerAlpha, IndexIn(UpperAlpha, c)) ELSE c

RECURSIVE PyUpper(_)
PyUpper(s) == IF Len(s) = 0 THEN "" ELSE UpperChar(CharAt(s, 1)) \o PyUpper(SubSeq(s, 2, Len(s)))

RECURSIVE PyLower(_)
PyLower(s) == IF Len(s) = 0 THEN "" ELSE LowerChar(CharAt(s, 1)) \o PyLower(SubSeq(s, 2, Len(s)))

IsSpace(c) == c = " "

\* s.strip(): from the first to the last character that is not a blank
PyStrip(s) ==
    LET ink == {i \in 1..Len(s) : ~IsSpace(CharAt(s, i))}
    IN  IF ink = {} THEN ""
        ELSE SubSeq(s, CHOOSE i \in ink : \A j \in ink : i <= j,
                       CHOOSE i \in ink : \A j \in ink : j <= i)

StartsWith(s, p) == Len(s) >= Len(p) /\ SubSeq(s, 1, Len(p)) = p

\* Python's  p in s
Contains(s, p) == \E i \in 1..(Len(s) - Len(p) + 1) : SubSeq(s, i, i + Len(p) - 1) = p

(***************************************************************************)
(* Numbers <-> text                                                        *)
(***************************************************************************)
\* s without its trailing zeros, one digit at least
RStripZeros(s) ==
    LET nz == {i \in 1..Len(s) : CharAt(s, i) # "0"}
    IN  IF nz = {} THEN SubSeq(s, 1, 1) ELSE SubSeq(s, 1, CHOOSE i \in nz : \A j \in nz : j <= i)

\* s.zfill(w), w <= 5
ZeroPad(s, w) == IF Len(s) < w THEN SubSeq("00000", 1, w - Len(s)) \o s ELSE s

Abs(v) == IF v < 0 THEN 0 - v ELSE v

\* str(x) of a Python float: shortest decimal, at least one fractional digit
StrNum(v) ==
    (IF v < 0 THEN "-" ELSE "")
    \o ToString(Abs(v) \div Unit) \o "." \o RStripZeros(ZeroPad(ToString(Abs(v) % Unit), 5))

\* str(x) of a pandas cell: NaN prints as "nan"
PyStr(c) == IF c.k = "txt" THEN c.s ELSE IF c.k = "num" THEN StrNum(c.n) ELSE "nan"

(***************************************************************************)
(* The string functions are evaluated once per text of the vocabulary and  *)
(* looked up afterwards; a text outside the vocabulary is computed.        *)
(***************************************************************************)
CellVocab == UNION {{r[j] : j \in 1..Len(r)} : r \in AllRows}

StrCell(c) == PyStr(c)

TextDomain == UNION {{StrCell(c), PyStrip(StrCell(c))} : c \in CellVocab} \cup {"-", "None"}

Lookup(memo, s, computed) == IF s \in DOMAIN memo THEN memo[s] ELSE computed

StripMemo == [t \in TextDomain |-> PyStrip(t)]
UpperMemo == [t \in TextDomain |-> PyUpper(t)]
LowerMemo == [t \in TextDomain |-> PyLower(t)]

\* s.strip(), s.upper(), s.lower()
Strip(s) == Lookup(StripMemo, s, PyStrip(s))
Upper(s) == Lookup(UpperMemo, s, PyUpper(s))
Lower(s) == Lookup(LowerMemo, s, PyLower(s))

\* the texts the code searches for with  in
Needles == {"PO Attainment", "Attainment Level", "Target Level", "Final attainment level", "ps"}

ContainsMemo == [p \in Needles |-> [t \in TextDomain |-> Contains(t, p)]]

\* p in s, for a needle p
In(p, s) == Lookup(ContainsMemo[p], s, Contains(s, p))

IsDigits(s) == \A i \in 1..Len(s) : IndexIn(Digits, CharAt(s, i)) > 0

RECURSIVE DigitsVal(_)
DigitsVal(s) ==
    IF Len(s) = 0 THEN 0
    ELSE 10 * DigitsVal(SubSeq(s, 1, Len(s) - 1)) + (IndexIn(Digits, CharAt(s, Len(s))) - 1)

ZeroPadRight(s, w) == IF Len(s) < w THEN s \o SubSeq("00000", 1, w - Len(s)) ELSE s

ParseFail == [ok |-> FALSE, n |-> 0]

\* the digits ip before and fp after the decimal point (at most 5 fractional digits)
ParseParts(ip, fp) ==
    IF Len(ip) + Len(fp) = 0 \/ Len(fp) > 5 \/ ~IsDigits(ip \o fp)
    THEN ParseFail
    ELSE [ok |-> TRUE, n |-> DigitsVal(ip) * Unit + DigitsVal(ZeroPadRight(fp, 5))]

SplitAt(s, d) == ParseParts(SubSeq(s, 1, d - 1), SubSeq(s, d + 1, Len(s)))

\* an unsigned decimal literal  ddd , ddd. , ddd.ddd , .ddd
ParseDots(s, dots) ==
    IF Cardinality(dots) > 1 THEN ParseFail
    ELSE IF dots = {} THEN ParseParts(s, "")
    ELSE SplitAt(s, CHOOSE i \in dots : TRUE)

ParseUnsigned(s) == ParseDots(s, {i \in 1..Len(s) : CharAt(s, i) = "."})

Negate(r) == IF r.ok THEN [ok |-> TRUE, n |-> 0 - r.n] ELSE r

ParseSigned(t) ==
    IF Len(t) > 0 /\ CharAt(t, 1) = "-" THEN Negate(ParseUnsigned(SubSeq(t, 2, Len(t))))
    ELSE IF Len(t) > 0 /\ CharAt(t, 1) = "+" THEN ParseUnsigned(SubSeq(t, 2, Len(t)))
    ELSE ParseUnsigned(t)

\* float(val) / pd.to_numeric of a text: surrounding blanks and a sign are accepted
PyFloat(s) == ParseSigned(PyStrip(s))

ParseMemo == [t \in TextDomain |-> PyFloat(t)]
ParseNum(s) == Lookup(ParseMemo, s, PyFloat(s))

\* v rounded to hundredths, given v \div 1000 and v % 1000: an exact tie goes to the even one
RoundParts(q, r) ==
    IF r < 500 THEN q * 1000
    ELSE IF r > 500 THEN (q + 1) * 1000
    ELSE IF q % 2 = 0 THEN q * 1000 ELSE (q + 1) * 1000

\* no rounding at all
Unrounded(v) == v

\* round(x, 2)
Round2(v) == RoundParts(v \div 1000, v % 1000)

\* the hundredths h >= 0 printed with two decimals
FormatHundredths(h) == ToString(h \div 100) \o "." \o ZeroPad(ToString(h % 100), 2)

FormatRounded(r) == (IF r < 0 THEN "-" ELSE "") \o FormatHundredths(Abs(r) \div 1000)

\* f"{num:.2f}"
Format2(v) == FormatRounded(Round2(v))

(***************************************************************************)
(* Grids (pandas DataFrame read with header=None)                          *)
(***************************************************************************)
\* Python's None for an index that was not found
None == 0 - 1

\* df.iloc[i], i counted from 0
RowAt(df, i) == df[i + 1]

\* positions 0 .. len(df)-1
RowIdx(df) == 0..(Len(df) - 1)

Min(S) == CHOOSE x \in S : \A y \in S : x <= y

\* first element of a set of indices, None when there is none (for ... break)
FirstOf(S) == IF S = {} THEN None ELSE Min(S)

\* the cells of row at the columns of keep, in column order
PickFrom(row, keep) ==
    [k \in 1..Cardinality(keep) |->
        row[CHOOSE j \in keep : Cardinality({i \in keep : i <= j}) = k]]

KeepCols(df, keep) == [i \in 1..Len(df) |-> PickFrom(df[i], keep)]

\* df.dropna(axis=1, how='all')
DropEmptyCols(df) == KeepCols(df, {j \in 1..Width(df) : \E i \in 1..Len(df) : NotNa(df[i][j])})

\* [str(x).strip() for x in row]
StripAll(row) == [j \in 1..Len(row) |-> Strip(StrCell(row[j]))]

\* [str(x).strip() for x in row if pd.notna(x)]
NonNaVals(row) == StripAll(SelectSeq(row, NotNa))

\* df.iloc[lo:hi]: the rows of positions lo .. hi-1, in sheet order
Slice(df, lo, hi) == SubSeq(df, lo + 1, IF hi < Len(df) THEN hi ELSE Len(df))

AllNa(row) == \A j \in 1..Len(row) : ~NotNa(row[j])

\* data.fillna("-")
FillNa(c) == IF NotNa(c) THEN c ELSE Txt("-")

\* .round(2).fillna("-") on the outcome of the numeric parse
RoundOrDash(p) == IF p.ok THEN Num(Round2(p.n)) ELSE Txt("-")

\* a coercion that parses no text
NumbersOnly(v) == IF v.k = "num" THEN [ok |-> TRUE, n |-> v.n] ELSE ParseFail

\* pd.to_numeric(x, errors='coerce') of one value: a number is itself, a text is parsed
ToNumeric(v) == IF v.k = "num" THEN [ok |-> TRUE, n |-> v.n] ELSE ParseNum(v.s)

\* pd.to_numeric(col, errors='coerce').round(2).fillna("-"), on one cell of the column
CoerceNumeric(c) == RoundOrDash(ToNumeric(FillNa(c)))

\* fillna on the first column, numeric coercion on data.columns[1:]
CoerceRow(row) == [j \in 1..Len(row) |-> IF j = 1 THEN FillNa(row[j]) ELSE CoerceNumeric(row[j])]

CoerceRows(data) == [i \in 1..Len(data) |-> CoerceRow(data[i])]

\* data[col] is a DataFrame, and pd.to_numeric raises TypeError, when the label
\* col of data.columns[1:] occurs more than once among the columns
DuplicateLabel(header) ==
    \E j \in 2..Len(header) : \E i \in 1..Len(header) : i # j /\ header[i] = header[j]

Raise(exc, msg) ==
    [kind |-> "raise", exc |-> exc, msg |-> msg, heading |-> "", columns |-> <<>>, rows |-> <<>>]

Table(heading, columns, rows) ==
    [kind |-> "table", exc |-> "", msg |-> "", heading |-> heading, columns |-> columns, rows |-> rows]

\* the numeric loop over data.columns[1:], and the return
CoercedTable(heading, header, data) ==
    IF DuplicateLabel(header)
    THEN Raise("TypeError", "arg must be a list, tuple, 1-d array, or Series")
    ELSE Table(heading, header, CoerceRows(data))

(***************************************************************************)
(* extract_co_mapping                                                      *)
(***************************************************************************)
\* the test of the header loop on vals (app.py 36-37)
HeaderVals(vals, prefix) ==
    /\ Len(vals) >= 2
    /\ Upper(vals[1]) \in {"CO", prefix \o "1"}
    /\ StartsWith(Upper(vals[2]), prefix)

HeaderPred(row, prefix) == HeaderVals(NonNaVals(row), prefix)

\* a header loop without its break: the last row the test holds of
LastHeaderIdx(df, prefix) ==
    IF \A i \in RowIdx(df) : ~HeaderPred(RowAt(df, i), prefix) THEN None
    ELSE CHOOSE i \in RowIdx(df) : /\ HeaderPred(RowAt(df, i), prefix)
                                   /\ \A k \in RowIdx(df) : HeaderPred(RowAt(df, k), prefix) => k <= i


HeaderIdx(df, prefix) == FirstOf({i \in RowIdx(df) : HeaderPred(RowAt(df, i), prefix)})

\* if header[0].upper() == f"{prefix}1": header[0] = "CO"
RenameAnchor(header, prefix) ==
    IF Upper(header[1]) = prefix \o "1" THEN [header EXCEPT ![1] = "CO"] ELSE header

\* header = [str(x).strip() for x in raw_header], then the renaming
NormalizeHeader(raw_header, prefix) == RenameAnchor(StripAll(raw_header), prefix)

\* the test of the stop loop (app.py 53)
StopPred(row) == \E j \in 1..Len(row) : NotNa(row[j]) /\ Lower(Strip(StrCell(row[j]))) = "po attainment"

\* no stop loop at all
NoStopIdx(df, header_idx) == None


StopIdx(df, header_idx) ==
    FirstOf({i \in RowIdx(df) : i >= header_idx + 1 /\ StopPred(RowAt(df, i))})

\* if stop_idx: df.iloc[header_idx+1 : stop_idx]  else: df.iloc[header_idx+1 :]
DataRegion(df, header_idx, stop_idx) ==
    IF stop_idx # None /\ stop_idx # 0
    THEN Slice(df, header_idx + 1, stop_idx)
    ELSE Slice(df, header_idx + 1, Len(df))

\* a mask that keeps every row
EveryRow(row) == TRUE

\* ~data.iloc[:, 0].astype(str).str.lower().str.startswith("overall co attainment")
OverallMask(row) == ~StartsWith(Lower(StrCell(row[1])), "overall co attainment")

\* data[mask].dropna(how="all")
KeepMappingRow(row) == OverallMask(row) /\ ~AllNa(row)

\* the locals of a mapping extractor when it returns or raises: header_idx, the
\* normalized header, stop_idx, the sliced region (app.py 59/61) and data as
\* filtered (app.py 65-67)
NoLocals == [header_idx |-> None, header |-> <<>>, stop_idx |-> None, region |-> <<>>, data |-> <<>>]

LocalsOf(header_idx, header, stop_idx, region, data) ==
    [header_idx |-> header_idx, header |-> header, stop_idx |-> stop_idx,
     region |-> region, data |-> data]

\* data = data[mask].dropna(how="all") on the sliced region
MappingData(header_idx, header, stop_idx, region) ==
    LocalsOf(header_idx, header, stop_idx, region, SelectSeq(region, KeepMappingRow))

MappingAt(df, header_idx, stop_idx, prefix) ==
    MappingData(header_idx, NormalizeHeader(RowAt(df, header_idx), prefix), stop_idx,
                DataRegion(df, header_idx, stop_idx))

MappingFrom(df, header_idx, prefix) ==
    IF header_idx = None THEN NoLocals ELSE MappingAt(df, header_idx, StopIdx(df, header_idx), prefix)

\* a call that finds the locals of the call before it and keeps them
StaleLocals(xls_sheet, prefix) ==
    IF locals.header_idx # None THEN locals
    ELSE MappingFrom(DropEmptyCols(xls_sheet), HeaderIdx(DropEmptyCols(xls_sheet), prefix), prefix)

\* the body of extract_co_mapping up to the numeric loop (app.py 28-67)
MappingLocals(xls_sheet, prefix) ==
    MappingFrom(DropEmptyCols(xls_sheet), HeaderIdx(DropEmptyCols(xls_sheet), prefix), prefix)

\* an extractor that returns an empty table where no header was located
MappingOrEmpty(l, sheet_name, prefix) ==
    IF l.header_idx = None
    THEN Table("Mapping of CO with " \o prefix \o "s:", <<>>, <<>>)
    ELSE CoercedTable("Mapping of CO with " \o prefix \o "s:", l.header, l.data)

\* raise ValueError (app.py 41-42; the hyphen of the message is U+2011 in the
\* source, "-" here), or the numeric loop and the return (app.py 70-74)
MappingReturn(l, sheet_name, prefix) ==
    IF l.header_idx = None
    THEN Raise("ValueError",
               "Could not locate CO-" \o prefix \o " header in '" \o sheet_name \o "' sheet.")
    ELSE CoercedTable("Mapping of CO with " \o prefix \o "s:", l.header, l.data)

ExtractCoMapping(xls_sheet, sheet_name, prefix) ==
    MappingReturn(MappingLocals(xls_sheet, prefix), sheet_name, prefix)

(***************************************************************************)
(* extract_co_pso_mapping                                                  *)
(***************************************************************************)
\* the test of the header loop on vals (app.py 87-88)
PsoHeaderVals(vals) ==
    /\ Len(vals) >= 2
    /\ StartsWith(Lower(vals[1]), "course outcomes")
    /\ \E j \in 2..Len(vals) : In("ps", Lower(vals[j]))

PsoHeaderPred(row) == PsoHeaderVals(NonNaVals(row))

PsoHeaderIdx(df) == FirstOf({i \in RowIdx(df) : PsoHeaderPred(RowAt(df, i))})

\* header = [str(x).strip() for x in raw_header]; header[0] = "Course Outcomes"
PsoHeader(raw_header) == [StripAll(raw_header) EXCEPT ![1] = "Course Outcomes"]

\* ~data.iloc[:, 0].astype(str).str.strip().str.lower().eq("course")
CourseMask(row) == Lower(Strip(StrCell(row[1]))) # "course"

KeepPsoRow(row) == CourseMask(row) /\ ~AllNa(row)

\* the two filters of app.py 103-104 on the sliced region
PsoMappingData(header_idx, header, region) ==
    LocalsOf(header_idx, header, None, region, SelectSeq(region, KeepPsoRow))

PsoMappingAt(df, header_idx) ==
    PsoMappingData(header_idx, PsoHeader(RowAt(df, header_idx)), Slice(df, header_idx + 1, Len(df)))

PsoMappingFrom(df, header_idx) == IF header_idx = None THEN NoLocals ELSE PsoMappingAt(df, header_idx)

\* the body of extract_co_pso_mapping up to the numeric loop (app.py 80-107)
PsoMappingLocals(xls_sheet) == PsoMappingFrom(DropEmptyCols(xls_sheet), PsoHeaderIdx(DropEmptyCols(xls_sheet)))

\* raise ValueError (app.py 93-94), or the numeric loop and the return (app.py 110-114)
PsoMappingReturn(l) ==
    IF l.header_idx = None
    THEN Raise("ValueError", "Could not locate CO-PSO header in 'PSO Attainment' sheet.")
    ELSE CoercedTable("Mapping of COs with PSOs:", l.header, l.data)

ExtractCoPsoMapping(xls_sheet) == PsoMappingReturn(PsoMappingLocals(xls_sheet))

(***************************************************************************)
(* extract_po_evaluation_table                                             *)
(***************************************************************************)
\* the whole row, columns 0-3 included
FromCol0(row) == row

\* row[4:] -- the cells from column index 4 on
FromCol4(row) == SubSeq(row, 5, Len(row))

\* any("PO Attainment" in cell for cell in row_str)
MarkerPred(row) == \E j \in 1..Len(row) : In("PO Attainment", Strip(StrCell(row[j])))

HeaderCellKept(c) == NotNa(c) /\ Strip(StrCell(c)) # ""

\* [str(cell).strip() for cell in header_row[4:] if pd.notna(cell) and str(cell).strip()]
EvalHeader(header_row) == StripAll(SelectSeq(FromCol4(header_row), HeaderCellKept))

\* val = f"{num:.2f}" when float(val) succeeds, val otherwise
FormatOr(p, val) == IF p.ok THEN Format2(p.n) ELSE val

FormatText(val) == FormatOr(ParseNum(val), val)

\* one value of the data row: "-" when the cell is absent
EvalValue(c) == FormatText(IF NotNa(c) THEN Strip(StrCell(c)) ELSE "-")

EvalValues(cells) == [j \in 1..Len(cells) |-> EvalValue(cells[j])]

\* the loop over data_row[4:4+len(header)]
EvalData(data_row, n) ==
    EvalValues(SubSeq(data_row, 5, IF 4 + n < Len(data_row) THEN 4 + n ELSE Len(data_row)))

\* if len(header) > 0 and len(data) > 0
EvalNonEmpty(header, data_row) == Len(header) > 0 /\ Len(EvalData(data_row, Len(header))) > 0

\* the marker rows at which the loop body returns
EvalReturnsAt(df, i) ==
    /\ MarkerPred(RowAt(df, i))
    /\ i + 4 < Len(df)
    /\ EvalNonEmpty(EvalHeader(RowAt(df, i + 3)), RowAt(df, i + 4))

NoEval == [found |-> FALSE, marker |-> None, header |-> <<>>, data |-> <<>>]

EvalResult(m, header, data_row) ==
    [found |-> TRUE, marker |-> m, header |-> header, data |-> EvalData(data_row, Len(header))]

EvalAt(df, m) ==
    IF m = None THEN NoEval ELSE EvalResult(m, EvalHeader(RowAt(df, m + 3)), RowAt(df, m + 4))

\* (header, data) of the first marker row at which the body returns, else None;
\* marker records the row the loop returned at
ExtractPoEvaluationTable(df) == EvalAt(df, FirstOf({i \in RowIdx(df) : EvalReturnsAt(df, i)}))

\* a worksheet of a workbook, and a worksheet the workbook does not hold
Ws(rows) == [present |-> TRUE, rows |-> rows]
NoWs == [present |-> FALSE, rows |-> <<>>]

\* str(e) of the ValueError pd.read_excel raises for a missing worksheet
WorksheetNotFound(sheet_name) == "Worksheet named '" \o sheet_name \o "' not found"

\* what a call gave: its return value and the lines it printed
Outcome(r, lines) == [ret |-> r, printed |-> lines]

\* the try block of extract_po_evaluation_table and its except clause:
\* print(f"Error extracting PO evaluation table: {e}"); return None
TryPoEvaluationTable(ws) ==
    IF ws.present
    THEN Outcome(ExtractPoEvaluationTable(ws.rows), <<>>)
    ELSE Outcome(NoEval, <<"Error extracting PO evaluation table: " \o WorksheetNotFound("CO Attainment")>>)

(***************************************************************************)
(* extract_pso_evaluation_table                                            *)
(***************************************************************************)
\* row_str = [str(cell).strip() if cell is not None else "" for cell in row]
RowStr(row) == [j \in 1..Len(row) |-> Strip(StrCell(row[j]))]

\* any(cell == "Course" for cell in row_str)
CoursePred(row) == \E j \in 1..Len(row) : RowStr(row)[j] = "Course"

\* row_str.index("Course")
CourseIndex(row) == FirstOf({j \in 0..(Len(row) - 1) : RowStr(row)[j + 1] = "Course"})

\* header = row_str[header_index:]
PsoEvalHeader(row, header_index) == SubSeq(RowStr(row), header_index + 1, Len(row))

\* data_row[header_index:header_index+len(header)], each value formatted
PsoEvalData(data_row, header_index, n) ==
    EvalValues(SubSeq(data_row, header_index + 1, Min({header_index + n, Len(data_row)})))

\* the rows at which the loop body returns: if i + 1 < len(df)
PsoEvalReturnsAt(df, i) == CoursePred(RowAt(df, i)) /\ i + 1 < Len(df)

PsoEvalResult(m, header_index, header, data_row) ==
    [found |-> TRUE, marker |-> m, header |-> header, data |-> PsoEvalData(data_row, header_index, Len(header))]

PsoEvalFrom(df, m, header_index) ==
    PsoEvalResult(m, header_index, PsoEvalHeader(RowAt(df, m), header_index), RowAt(df, m + 1))

PsoEvalAt(df, m) == IF m = None THEN NoEval ELSE PsoEvalFrom(df, m, CourseIndex(RowAt(df, m)))

ExtractPsoEvaluationTable(df) == PsoEvalAt(df, FirstOf({i \in RowIdx(df) : PsoEvalReturnsAt(df, i)}))

\* the try block of extract_pso_evaluation_table and its except clause:
\* print(f"Error extracting PSO evaluation table: {e}"); return None
TryPsoEvaluationTable(ws) ==
    IF ws.present
    THEN Outcome(ExtractPsoEvaluationTable(ws.rows), <<>>)
    ELSE Outcome(NoEval, <<"Error extracting PSO evaluation table: " \o WorksheetNotFound("PSO Attainment")>>)

(***************************************************************************)
(* The labeled-value scans of create_word_report (openpyxl rows)           *)
(***************************************************************************)
\* str(cell) of an openpyxl value: an empty cell is None
StrXl(c) == IF c.k = "nan" THEN "None" ELSE StrCell(c)

\* row and any(label in str(cell) for cell in row)
LabelPred(row, label) == Len(row) > 0 /\ \E j \in 1..Len(row) : In(label, StrXl(row[j]))

\* isinstance(val, (int, float))
IsNumber(c) == c.k = "num"

Absent == [found |-> FALSE, value |-> 0]

Max(S) == CHOOSE x \in S : \A y \in S : y <= x

\* a scan of the row from the left: the number of least column
FirstNumberAt(row, cols) == IF cols = {} THEN Absent ELSE [found |-> TRUE, value |-> row[Min(cols)].n]


NumberAt(row, cols) == IF cols = {} THEN Absent ELSE [found |-> TRUE, value |-> row[Max(cols)].n]

\* for val in reversed(row): the first number met, i.e. the number of greatest column
LastNumber(row) == NumberAt(row, {j \in 1..Len(row) : IsNumber(row[j])})

ScanRow(ws, i) == IF i = None THEN Absent ELSE LastNumber(RowAt(ws, i))

\* the loop breaks at the first row holding the label, whether a number was met or not
LabeledScan(ws, label) == ScanRow(ws, FirstOf({r \in RowIdx(ws) : LabelPred(RowAt(ws, r), label)}))

(***************************************************************************)
(* Specification of the extractors: a sheet is drawn, then any of the      *)
(* functions is applied to it, any number of times.                        *)
(***************************************************************************)
NoCall == [fn |-> "none", sheet_name |-> "", prefix |-> ""]

\* the calls of read_excel: (sheet_name, prefix)
MappingCalls == {<<"CO Attainment", "PO">>, <<"PSO Attainment", "PSO">>}

NoUploads == <<>>

Prefixes == {a[2] : a \in MappingCalls}

NoSeen == [p \in Prefixes |-> [first |-> NoCall, between |-> FALSE]]

Init ==
    /\ sheet \in Sheets
    /\ call = NoCall
    /\ locals = NoLocals
    /\ ret = NoCall
    /\ uploads = NoUploads
    /\ reports = NoUploads
    /\ response = NoCall
    /\ assembled = NoCall
    /\ printed = <<>>
    /\ seen = NoSeen

Untouched == UNCHANGED <<sheet, uploads, reports, response, assembled>>

\* a call that prints nothing
Frame == Untouched /\ printed' = <<>> /\ UNCHANGED seen

ExtractCoMappingStep(a) ==
    /\ call' = [fn |-> "extract_co_mapping", sheet_name |-> a[1], prefix |-> a[2]]
    /\ locals' = MappingLocals(sheet, a[2])
    /\ ret' = MappingReturn(locals', a[1], a[2])

CallExtractCoMapping ==
    \E a \in MappingCalls : ExtractCoMappingStep(a) /\ Frame

CallExtractCoPsoMapping ==
    /\ call' = [fn |-> "extract_co_pso_mapping", sheet_name |-> "PSO Attainment", prefix |-> ""]
    /\ locals' = PsoMappingLocals(sheet)
    /\ ret' = PsoMappingReturn(locals')
    /\ Frame

\* the call returned o.ret and wrote o.printed
Gave(o) == ret' = o.ret /\ printed' = o.printed

\* the workbook handed to the function holds the worksheet, or does not
ExtractPoEvaluationTableStep(ws) ==
    /\ call' = [fn |-> "extract_po_evaluation_table", sheet_name |-> "CO Attainment", prefix |-> ""]
    /\ locals' = NoLocals
    /\ Gave(TryPoEvaluationTable(ws))

CallExtractPoEvaluationTable ==
    \E ws \in {Ws(sheet), NoWs} :
        ExtractPoEvaluationTableStep(ws) /\ Untouched /\ UNCHANGED seen

ScanExternalAttainment ==
    /\ call' = [fn |-> "scan", sheet_name |-> "University TH Marks", prefix |-> "Attainment Level"]
    /\ locals' = NoLocals
    /\ ret' = LabeledScan(sheet, "Attainment Level")
    /\ Frame

ScanInternalAttainment ==
    /\ call' = [fn |-> "scan", sheet_name |-> "Internal Assessment marks", prefix |-> "Target Level"]
    /\ locals' = NoLocals
    /\ ret' = LabeledScan(sheet, "Target Level")
    /\ Frame

ScanExitSurveyAttainment ==
    /\ call' = [fn |-> "scan", sheet_name |-> "Course Exit survey", prefix |-> "Final attainment level"]
    /\ locals' = NoLocals
    /\ ret' = LabeledScan(sheet, "Final attainment level")
    /\ Frame

Next ==
    \/ CallExtractCoMapping
    \/ CallExtractCoPsoMapping
    \/ CallExtractPoEvaluationTable
    \/ ScanExternalAttainment
    \/ ScanInternalAttainment
    \/ ScanExitSurveyAttainment

Spec == Init /\ [][Next]_vars

(***************************************************************************)
(* Specification of a session: one workbook, the extractors applied to it  *)
(* one after another, in any order and any number of times.                *)
(***************************************************************************)
SessionRows ==
    { <<Txt("CO"), Txt("PO1"), Txt("PO2")>>,
      <<Txt("CO"), Txt("PSO1"), Txt("PSO2")>>,
      <<Txt(" Course "), Num(200000), Num(312500)>>,
      <<Txt("CO1"), Num(266700), Txt("x")>> }

SessionSheets == SeqsOf(SessionRows, 1, MaxRows) \cup ScenarioSheets

SessionInit ==
    /\ sheet \in SessionSheets
    /\ call = NoCall
    /\ locals = NoLocals
    /\ ret = NoCall
    /\ uploads = NoUploads
    /\ reports = NoUploads
    /\ response = NoCall
    /\ assembled = NoCall
    /\ printed = <<>>
    /\ seen = NoSeen

\* another call was made since the first extract_co_mapping call of a prefix
Later(s) == IF s.first = NoCall THEN s ELSE [s EXCEPT !.between = TRUE]

Interleaved(s) == [q \in DOMAIN s |-> Later(s[q])]

\* the first result of prefix p is kept
Recorded(s, p, r) ==
    [q \in DOMAIN s |->
        IF q # p THEN Later(s[q])
        ELSE IF s[q].first = NoCall THEN [first |-> r, between |-> FALSE] ELSE s[q]]

SessionExtractCoMapping ==
    \E a \in MappingCalls :
        /\ ExtractCoMappingStep(a)
        /\ seen' = Recorded(seen, a[2], ret')
        /\ printed' = <<>>
        /\ Untouched

SessionExtractCoPsoMapping ==
    /\ call' = [fn |-> "extract_co_pso_mapping", sheet_name |-> "PSO Attainment", prefix |-> ""]
    /\ locals' = PsoMappingLocals(sheet)
    /\ ret' = PsoMappingReturn(locals')
    /\ seen' = Interleaved(seen)
    /\ printed' = <<>>
    /\ Untouched

SessionExtractPoEvaluationTable ==
    \E ws \in {Ws(sheet), NoWs} :
        /\ ExtractPoEvaluationTableStep(ws)
        /\ seen' = Interleaved(seen)
        /\ Untouched

SessionExtractPsoEvaluationTable ==
    \E ws \in {Ws(sheet), NoWs} :
        /\ call' = [fn |-> "extract_pso_evaluation_table", sheet_name |-> "PSO Attainment", prefix |-> ""]
        /\ locals' = NoLocals
        /\ Gave(TryPsoEvaluationTable(ws))
        /\ seen' = Interleaved(seen)
        /\ Untouched

SessionNext ==
    \/ SessionExtractCoMapping
    \/ SessionExtractCoPsoMapping
    \/ SessionExtractPoEvaluationTable
    \/ SessionExtractPsoEvaluationTable

SessionSpec == SessionInit /\ [][SessionNext]_vars

(***************************************************************************)
(* extract_po_attainment                                                   *)
(***************************************************************************)
NoTable == [kind |-> "none", exc |-> "", msg |-> "", heading |-> "", columns |-> <<>>, rows |-> <<>>]

\* the first row holding a "po attainment" cell (app.py 121-125)
PaIdx(df) == FirstOf({i \in RowIdx(df) : StopPred(RowAt(df, i))})

\* row[0].upper() == "CO" and any(cell.upper().startswith("PO") for cell in row[1:])
SummaryHeaderVals(row) ==
    /\ Len(row) > 0
    /\ Upper(row[1]) = "CO"
    /\ \E j \in 2..Len(row) : StartsWith(Upper(row[j]), "PO")

\* the test of the second loop on df.iloc[i].astype(str).str.strip().tolist();
\* a row that starts with "co program" is skipped, and fails the test anyway
SummaryHeaderPred(row) == SummaryHeaderVals(StripAll(row))

SummaryHeaderIdx(df, pa_idx) ==
    FirstOf({i \in RowIdx(df) : i >= pa_idx + 1 /\ SummaryHeaderPred(RowAt(df, i))})

\* round(float(val), 2), val itself when float fails
RoundedOr(p, val) == IF p.ok THEN Num(Round2(p.n)) ELSE val

RoundedVal(val) == RoundedOr(ToNumeric(val), val)

\* the loop over data_row[:len(header)] after fillna("-")
RoundedRow(data_row, n) == [j \in 1..n |-> RoundedVal(FillNa(data_row[j]))]

SummaryTable(header, data_row) ==
    Table("PO Attainment Table:", header, << RoundedRow(data_row, Len(header)) >>)

\* df.iloc[header_idx + 1] raises IndexError past the last row
SummaryAt(df, header_idx) ==
    IF header_idx = None THEN NoTable
    ELSE IF header_idx + 1 >= Len(df)
    THEN Raise("IndexError", "single positional indexer is out-of-bounds")
    ELSE SummaryTable(SelectSeq(RowAt(df, header_idx), NotNa), RowAt(df, header_idx + 1))

SummaryFrom(df, pa_idx) ==
    IF pa_idx = None THEN NoTable ELSE SummaryAt(df, SummaryHeaderIdx(df, pa_idx))

SummaryOf(df) == SummaryFrom(df, PaIdx(df))

ExtractPoAttainment(xls_sheet) == SummaryOf(DropEmptyCols(xls_sheet))

(***************************************************************************)
(* The /upload handler: read_excel, create_word_report and the response    *)
(***************************************************************************)
UPLOAD_FOLDER == "uploads"
REPORT_FOLDER == "reports"

\* the worksheets create_word_report indexes by name (app.py 670, 706, 731)
MarkSheets == <<"University TH Marks", "Internal Assessment marks", "Course Exit survey">>

Workbook(readable, co, pso, marks) ==
    [readable |-> readable, co |-> co, pso |-> pso, marks |-> marks,
     sheetnames |-> {MarkSheets[i] : i \in {j \in 1..3 : marks[j].present}}]

\* the three worksheets of marks: every label on a row with a number after it
MarksLabeled ==
    << Ws(<< <<Txt("Attainment Level"), Num(200000), Num(300000)>> >>),
       Ws(<< <<NaN, Txt("Target Level"), Num(150000)>> >>),
       Ws(<< E3, <<Num(250000), Txt("Final attainment level"), Txt("2")>> >>) >>

\* no row holds the label (the letter case differs)
MarksUnlabeled ==
    << Ws(<< <<Txt("attainment level"), Num(100000), NaN>> >>),
       Ws(<< <<Txt("attainment level"), Num(100000), NaN>> >>),
       Ws(<< <<Txt("attainment level"), Num(100000), NaN>> >>) >>

\* the row of the label holds no number, a later row of the label does
MarksUnnumbered ==
    << Ws(<< <<Txt("Attainment Level / Target Level / Final attainment level"), NaN, Txt("high")>>,
             <<Txt("Attainment Level"), Num(200000), Num(300000)>> >>),
       Ws(<< <<Txt("Attainment Level / Target Level / Final attainment level"), NaN, Txt("high")>>,
             <<NaN, Txt("Target Level"), Num(150000)>> >>),
       Ws(<< <<Txt("Attainment Level / Target Level / Final attainment level"), NaN, Txt("high")>> >>) >>

MarksWithoutExitSurvey == [MarksLabeled EXCEPT ![3] = NoWs]

NoMarks == <<NoWs, NoWs, NoWs>>

\* the uploaded files, by content
Workbooks ==
    [ complete       |-> Workbook(TRUE, Ws(CoSummary), Ws(PsoPlain), MarksLabeled),
      no_summary     |-> Workbook(TRUE, Ws(CoPlain), Ws(PsoPlain), MarksLabeled),
      cut_short      |-> Workbook(TRUE, Ws(CoCutShort), Ws(PsoPlain), MarksLabeled),
      no_exit_survey |-> Workbook(TRUE, Ws(CoSummary), Ws(PsoPlain), MarksWithoutExitSurvey),
      co_headerless  |-> Workbook(TRUE, Ws(CoHeaderless), Ws(PsoPlain), MarksLabeled),
      pso_headerless |-> Workbook(TRUE, Ws(CoSummary), Ws(PsoHeaderless), MarksLabeled),
      co_pso_swapped |-> Workbook(TRUE, Ws(PsoPlain), Ws(CoPlain), MarksLabeled),
      pso_course_row |-> Workbook(TRUE, Ws(CoSummary), Ws(PsoCourseRow), MarksLabeled),
      unlabeled      |-> Workbook(TRUE, Ws(CoSummary), Ws(PsoPlain), MarksUnlabeled),
      unnumbered     |-> Workbook(TRUE, Ws(CoSummary), Ws(PsoPlain), MarksUnnumbered),
      no_co_sheet    |-> Workbook(TRUE, NoWs, Ws(PsoPlain), MarksLabeled),
      no_pso_sheet   |-> Workbook(TRUE, Ws(CoPlain), NoWs, MarksLabeled),
      not_excel      |-> Workbook(FALSE, NoWs, NoWs, NoMarks) ]

\* f.filename of the uploaded part; a part without a file name is falsy
FileNames == {"", "a.xlsx", "../a.xlsx", ".."}

IsSep(c) == c = "/"

FilenameChars == LowerAlpha \o UpperAlpha \o Digits \o "_.-"

\* one character through secure_filename: a separator becomes a blank, a run
\* of blanks one "_", a character outside [A-Za-z0-9_.-] nothing
SecureChar(s, i) ==
    IF IsSpace(CharAt(s, i)) \/ IsSep(CharAt(s, i))
    THEN (IF i > 1 /\ (IsSpace(CharAt(s, i - 1)) \/ IsSep(CharAt(s, i - 1))) THEN "" ELSE "_")
    ELSE IF IndexIn(FilenameChars, CharAt(s, i)) > 0 THEN CharAt(s, i) ELSE ""

RECURSIVE SecureFrom(_, _)
SecureFrom(s, i) == IF i > Len(s) THEN "" ELSE SecureChar(s, i) \o SecureFrom(s, i + 1)

\* .strip("._")
StripDots(s) ==
    LET ink == {i \in 1..Len(s) : CharAt(s, i) \notin {".", "_"}}
    IN  IF ink = {} THEN ""
        ELSE SubSeq(s, CHOOSE i \in ink : \A j \in ink : i <= j,
                       CHOOSE i \in ink : \A j \in ink : j <= i)

\* werkzeug.utils.secure_filename
SecureFilename(filename) == StripDots(SecureFrom(filename, 1))

\* os.path.splitext(name)[0]: name up to its last dot, a leading dot aside
Stem(name) ==
    LET dots == {i \in 2..Len(name) : CharAt(name, i) = "."}
    IN  IF dots = {} THEN name ELSE SubSeq(name, 1, (CHOOSE i \in dots : \A j \in dots : j <= i) - 1)

SecureMemo == [f \in FileNames |-> SecureFilename(f)]

\* out_name = f"report_{os.path.splitext(name)[0]}.docx"
OutNameMemo == [f \in FileNames |-> "report_" \o Stem(SecureFilename(f)) \o ".docx"]

\* os.path.join(folder, name)
PathJoin(folder, name) == folder \o "/" \o name

\* a read that answers a missing worksheet with an empty table
ReadOrEmpty(ws, sheet_name, prefix) ==
    IF ~ws.present
    THEN Table("CO-" \o prefix \o " Mapping Table", <<>>, <<>>)
    ELSE ExtractCoMapping(ws.rows, sheet_name, prefix)

\* pd.read_excel(xls, sheet_name=...) at the head of an extractor raises when
\* the workbook has no such worksheet
ReadMapping(ws, sheet_name, prefix) ==
    IF ~ws.present
    THEN Raise("ValueError", WorksheetNotFound(sheet_name))
    ELSE ExtractCoMapping(ws.rows, sheet_name, prefix)

ReadSummary(ws, sheet_name) ==
    IF ~ws.present
    THEN Raise("ValueError", WorksheetNotFound(sheet_name))
    ELSE ExtractPoAttainment(ws.rows)

Tables(co_po, po_att, co_pso) ==
    [kind |-> "tables", exc |-> "", msg |-> "", co_po |-> co_po, po_att |-> po_att, co_pso |-> co_pso]

Raised(r) == [kind |-> "raise", exc |-> r.exc, msg |-> r.msg, co_po |-> NoTable, po_att |-> NoTable, co_pso |-> NoTable]

\* read_excel, statement by statement: an exception of a statement ends it
ReadCoPso(co_po, po_att, co_pso) ==
    IF co_pso.kind = "raise" THEN Raised(co_pso) ELSE Tables(co_po, po_att, co_pso)

ReadPoAtt(co_po, po_att, wb) ==
    IF po_att.kind = "raise" THEN Raised(po_att)
    ELSE ReadCoPso(co_po, po_att, ReadMapping(wb.pso, "PSO Attainment", "PSO"))

ReadCoPo(co_po, wb) ==
    IF co_po.kind = "raise" THEN Raised(co_po)
    ELSE ReadPoAtt(co_po, ReadSummary(wb.co, "CO Attainment"), wb)

ReadExcel(wb) ==
    IF ~wb.readable
    THEN Raised(Raise("ValueError", "Excel file format cannot be determined, you must specify an engine manually."))
    ELSE ReadCoPo(ReadMapping(wb.co, "CO Attainment", "PO"), wb)

ReadExcelMemo == [w \in DOMAIN Workbooks |-> ReadExcel(Workbooks[w])]

\* create_word_report up to doc.save: indexing the workbook by a worksheet
\* name it does not hold raises KeyError
MissingMarkSheet(wb) == FirstOf({i \in 1..3 : MarkSheets[i] \notin wb.sheetnames})

\* a rendering that takes the value to be there
RenderNumber(found) == StrNum(found.value)

\* table_ext.cell(1, 1).text = f"{external_attainment}", and the same of
\* internal_attainment: str of the number, "None" of None
RenderScalar(found) == IF found.found THEN StrNum(found.value) ELSE "None"

\* attainment_value = exit_survey_attainment if ... is not None else "-"
RenderOrDash(found) == IF found.found THEN StrNum(found.value) ELSE "-"

NotShown == [shown |-> FALSE, header |-> <<>>, data |-> <<>>]

\* if po_eval: ... if len(header) > 0 and len(data) > 0: a table of two rows,
\* str(h) and str(d) in its cells
RenderEval(e) ==
    IF e.found /\ Len(e.header) > 0 /\ Len(e.data) > 0
    THEN [shown |-> TRUE, header |-> e.header, data |-> e.data]
    ELSE NotShown

\* the texts create_word_report puts in the cells the summary values go to
Document(wb) ==
    [ external    |-> RenderScalar(LabeledScan(wb.marks[1].rows, "Attainment Level")),
      internal    |-> RenderScalar(LabeledScan(wb.marks[2].rows, "Target Level")),
      exit_survey |-> RenderOrDash(LabeledScan(wb.marks[3].rows, "Final attainment level")),
      po_eval     |-> RenderEval(TryPoEvaluationTable(wb.co).ret),
      pso_eval    |-> RenderEval(TryPsoEvaluationTable(wb.pso).ret) ]

NoDocument ==
    [external |-> "", internal |-> "", exit_survey |-> "", po_eval |-> NotShown, pso_eval |-> NotShown]

Assemble(missing, document) ==
    IF missing = None THEN [kind |-> "saved", msg |-> "", doc |-> document]
    ELSE [kind |-> "raise", msg |-> "'Worksheet " \o MarkSheets[missing] \o " does not exist.'", doc |-> NoDocument]

CreateWordReport(wb) == Assemble(MissingMarkSheet(wb), Document(wb))

CreateMemo == [w \in DOMAIN Workbooks |-> CreateWordReport(Workbooks[w])]

\* a folder a write did not reach
Unwritten(folder, path, content) == folder

\* a folder with the file at path written
Put(folder, path, content) ==
    [q \in DOMAIN folder \cup {path} |-> IF q = path THEN content ELSE folder[q]]

ErrorResponse(message) == [status |-> "error", message |-> message, filename |-> ""]

SuccessResponse(out_name) == [status |-> "success", message |-> "", filename |-> out_name]

\* the response Flask gives for an exception that leaves the view function
InternalServerError == [status |-> "500", message |-> "Internal Server Error", filename |-> ""]

NotAssembled == [invoked |-> FALSE, excel_file |-> "", output_path |-> ""]

Invoked(in_path, out_path) == [invoked |-> TRUE, excel_file |-> in_path, output_path |-> out_path]

UploadInit ==
    /\ sheet = <<>>
    /\ call = NoCall
    /\ locals = NoLocals
    /\ ret = NoCall
    /\ uploads = NoUploads
    /\ reports = NoUploads
    /\ response = NoCall
    /\ assembled = NotAssembled
    /\ printed = <<>>
    /\ seen = NoSeen

\* if not f: return jsonify(status="error", message="No file uploaded.")
UploadWithoutFile ==
    \E filename \in {f \in FileNames : f = ""} :
        /\ call' = [fn |-> "upload", filename |-> filename, workbook |-> ""]
        /\ response' = ErrorResponse("No file uploaded.")
        /\ assembled' = NotAssembled
        /\ ret' = NoCall
        /\ UNCHANGED <<sheet, locals, uploads, reports, printed, seen>>

\* an assembly that writes the report file before its steps are through
SavedEarly(w, made, in_path, out_path, out_name) ==
    /\ assembled' = Invoked(in_path, out_path)
    /\ reports' = Put(reports, out_path, [excel_file |-> in_path, workbook |-> w, doc |-> made.doc])
    /\ response' = IF made.kind = "saved" THEN SuccessResponse(out_name) ELSE ErrorResponse(made.msg)

\* the try block after read_excel returned: create_word_report and the response
Report(w, made, in_path, out_path, out_name) ==
    /\ assembled' = Invoked(in_path, out_path)
    /\ reports' = IF made.kind = "saved"
                  THEN Put(reports, out_path, [excel_file |-> in_path, workbook |-> w, doc |-> made.doc])
                  ELSE reports
    /\ response' = IF made.kind = "saved" THEN SuccessResponse(out_name) ELSE ErrorResponse(made.msg)

\* the handler from f.save(in_path) on
Handle(w, in_path, out_name, tables) ==
    /\ uploads' = Put(uploads, in_path, w)
    /\ ret' = tables
    /\ IF tables.kind = "raise"
       THEN /\ response' = ErrorResponse(tables.msg)
            /\ assembled' = NotAssembled
            /\ reports' = reports
       ELSE Report(w, CreateMemo[w], in_path, PathJoin(REPORT_FOLDER, out_name), out_name)

\* f.save(in_path) with an empty secured name opens the folder itself for
\* writing: IsADirectoryError, raised before the try block
SaveRaises(name) == name = ""

Unhandled ==
    /\ response' = InternalServerError
    /\ assembled' = NotAssembled
    /\ ret' = NoCall
    /\ UNCHANGED <<uploads, reports>>

Upload ==
    \E filename \in {f \in FileNames : f # ""}, w \in DOMAIN Workbooks :
        /\ call' = [fn |-> "upload", filename |-> filename, workbook |-> w]
        /\ IF SaveRaises(SecureMemo[filename])
           THEN Unhandled
           ELSE Handle(w, PathJoin(UPLOAD_FOLDER, SecureMemo[filename]), OutNameMemo[filename], ReadExcelMemo[w])
        /\ UNCHANGED <<sheet, locals, printed, seen>>

UploadNext ==
    \/ UploadWithoutFile
    \/ Upload

UploadSpec == UploadInit /\ [][UploadNext]_vars

(***************************************************************************)
(* Properties of the extractors                                            *)
(***************************************************************************)
IsMappingCall == call.fn = "extract_co_mapping"

\* the non-empty cells of a row, as trimmed text
TrimmedCells(row) == [j \in 1..Len(SelectSeq(row, NotNa)) |-> Strip(StrCell(SelectSeq(row, NotNa)[j]))]

\* the two conditions of the header predicate
FirstIsAnchor(row, prefix) ==
    Len(TrimmedCells(row)) >= 1 /\ Upper(TrimmedCells(row)[1]) \in {"CO", prefix \o "1"}

SecondHasPrefix(row, prefix) ==
    Len(TrimmedCells(row)) >= 2 /\ StartsWith(Upper(TrimmedCells(row)[2]), prefix)

IsHeaderRow(row, prefix) == FirstIsAnchor(row, prefix) /\ SecondHasPrefix(row, prefix)

HeaderRows(prefix) == {i \in RowIdx(sheet) : IsHeaderRow(RowAt(sheet, i), prefix)}

\* the second condition on the cell as it stands in the sheet, untrimmed
SecondHasPrefixUntrimmed(row, prefix) ==
    /\ Len(SelectSeq(row, NotNa)) >= 2
    /\ StartsWith(Upper(StrCell(SelectSeq(row, NotNa)[2])), prefix)

HeaderRowsAsStated(prefix) ==
    {i \in RowIdx(sheet) : /\ FirstIsAnchor(RowAt(sheet, i), prefix)
                           /\ SecondHasPrefixUntrimmed(RowAt(sheet, i), prefix)}

\* C1 as stated: the header row extract_co_mapping chooses is the lowest-index
\* row of the sheet with at least two non-empty cells whose first non-empty
\* cell (trimmed, case-insensitive) is "CO" or prefix+"1" and whose second
\* non-empty cell (case-insensitive, as it stands) starts with prefix; no row
\* above it satisfies the predicate and a row that satisfies only one of the
\* two conditions is never chosen.
C1_HeaderIsFirstMatchAsStated ==
    IsMappingCall =>
        IF HeaderRowsAsStated(call.prefix) = {}
        THEN locals.header_idx = None
        ELSE locals.header_idx = Min(HeaderRowsAsStated(call.prefix))

\* C1 amended: the header row extract_co_mapping chooses is the lowest-index
\* row of the sheet with at least two non-empty cells whose first non-empty
\* cell (trimmed, case-insensitive) is "CO" or prefix+"1" and whose second
\* non-empty cell (trimmed as well, case-insensitive) starts with prefix; no
\* row above it satisfies the predicate, a row with only one of the two
\* conditions is never chosen, and none is chosen, and ValueError raised,
\* when no row qualifies.
C1_HeaderIsFirstMatch ==
    IsMappingCall =>
        IF HeaderRows(call.prefix) = {}
        THEN locals.header_idx = None /\ ret.kind = "raise"
        ELSE /\ locals.header_idx \in HeaderRows(call.prefix)
             /\ \A i \in RowIdx(sheet) : i < locals.header_idx => ~IsHeaderRow(RowAt(sheet, i), call.prefix)

\* a row above the chosen header satisfies one condition only, and a row below
\* the chosen header satisfies the predicate too
C1_Witness ==
    /\ IsMappingCall
    /\ locals.header_idx >= 1
    /\ \E i \in RowIdx(sheet) :
          /\ i < locals.header_idx
          /\ FirstIsAnchor(RowAt(sheet, i), call.prefix) # SecondHasPrefix(RowAt(sheet, i), call.prefix)
    /\ \E i \in RowIdx(sheet) : i > locals.header_idx /\ IsHeaderRow(RowAt(sheet, i), call.prefix)

\* the sheet as the extractor sees it: without its all-empty columns
Seen == DropEmptyCols(sheet)

\* a cell holds the literal phrase
HasPhrase(row) == \E j \in 1..Len(row) : NotNa(row[j]) /\ In("PO Attainment", StrCell(row[j]))

\* a cell is the phrase, surrounding blanks and letter case aside
IsPhrase(row) == \E j \in 1..Len(row) : NotNa(row[j]) /\ Lower(Strip(StrCell(row[j]))) = "po attainment"

\* the rows after the header, up to the first later row that stop(_) holds of
RegionUpTo(stop(_)) ==
    LET later == {i \in RowIdx(sheet) : i > locals.header_idx /\ stop(RowAt(sheet, i))}
    IN  IF later = {} THEN SubSeq(Seen, locals.header_idx + 2, Len(Seen))
        ELSE SubSeq(Seen, locals.header_idx + 2, Min(later))

\* C2 as stated: the data region is exactly the rows strictly after the header
\* row and strictly before the first later row that contains the literal
\* phrase "PO Attainment" in one of its cells, and every row after the header
\* when no later row contains the phrase.
C2_RegionEndsAtPhraseRow ==
    (IsMappingCall /\ locals.header_idx # None) => locals.region = RegionUpTo(HasPhrase)

\* C2 amended: the data region is exactly the rows strictly after the header
\* row and strictly before the first later row one of whose cells, trimmed and
\* compared case-insensitively, equals "po attainment" (the stop row and every
\* row after it are excluded); with no such row it is every row after the
\* header up to the end of the sheet.
C2_RegionEndsAtStopRow ==
    (IsMappingCall /\ locals.header_idx # None) => locals.region = RegionUpTo(IsPhrase)

\* a stop row cuts the region: rows lie between header and stop row, and
\* a row lies after the stop row
C2_Witness ==
    /\ IsMappingCall
    /\ locals.header_idx # None
    /\ locals.stop_idx # None
    /\ Len(locals.region) >= 1
    /\ locals.stop_idx + 1 < Len(sheet)

IsPsoMappingCall == call.fn = "extract_co_pso_mapping"

\* one of the two mapping extractors returned a table
TableReturned == (IsMappingCall \/ IsPsoMappingCall) /\ ret.kind = "table"

\* a number of two decimal places
TwoDecimals(c) == c.k = "num" /\ c.n % (Unit \div 100) = 0

Sentinel(c) == c = Txt("-")

\* C4: every row of a table returned by extract_co_mapping or
\* extract_co_pso_mapping has exactly len(columns) values, and every value of
\* every column but the first is a number rounded to 2 decimal places or the
\* sentinel "-", never raw text and never an absent value.
C4_RowsAlignedAndCoerced ==
    TableReturned =>
        \A i \in 1..Len(ret.rows) :
            /\ Len(ret.rows[i]) = Len(ret.columns)
            /\ \A j \in 2..Len(ret.rows[i]) : TwoDecimals(ret.rows[i][j]) \/ Sentinel(ret.rows[i][j])

\* extract_co_pso_mapping returned a row holding the rounding of a number of
\* more than two decimals, and a sentinel where the sheet has a text
C4_Witness ==
    /\ IsPsoMappingCall
    /\ ret.kind = "table"
    /\ \E i \in 1..Len(ret.rows) :
          /\ \E j \in 2..Len(ret.rows[i]) :
                IsNumber(locals.data[i][j]) /\ ~TwoDecimals(locals.data[i][j]) /\ TwoDecimals(ret.rows[i][j])
          /\ \E j \in 2..Len(ret.rows[i]) :
                locals.data[i][j].k = "txt" /\ Sentinel(ret.rows[i][j])

\* the number a cell parses as, if any
NumericOf(c) ==
    IF c.k = "num" THEN [ok |-> TRUE, n |-> c.n]
    ELSE IF c.k = "txt" THEN ParseNum(c.s) ELSE ParseFail

\* r is v rounded to two decimal places
RoundedTo2(v, r) == r % (Unit \div 100) = 0 /\ 2 * Abs(r - v) <= Unit \div 100

\* the value extracted from the data cell in
CoercedFrom(in, out) ==
    IF NumericOf(in).ok
    THEN out.k = "num" /\ RoundedTo2(NumericOf(in).n, out.n)
    ELSE Sentinel(out)

\* the rounding and sentinel examples
CoercionExamples(in, out) ==
    /\ in = Num(314159) => out = Num(314000)
    /\ in = Num(333300) => out = Num(333000)
    /\ in = Num(266700) => out = Num(267000)
    /\ in \in {NaN, Txt("abc"), Txt("x"), Txt("-")} => Sentinel(out)

\* C5: each value of a column other than the first is determined by its data
\* cell alone: a cell that parses as a number gives that number rounded to 2
\* decimal places (3.14159 -> 3.14, 3.333 -> 3.33, 2.667 -> 2.67), an absent
\* cell or a non-numeric text ("abc", "x", "-") gives "-"; a first-column cell
\* is passed through without numeric coercion (an absent one is filled with
\* "-" like every absent cell).
C5_CellCoercion ==
    (IsMappingCall /\ ret.kind = "table") =>
        /\ Len(ret.rows) = Len(locals.data)
        /\ \A i \in 1..Len(ret.rows) :
              /\ ret.rows[i][1] = (IF NotNa(locals.data[i][1]) THEN locals.data[i][1] ELSE Txt("-"))
              /\ \A j \in 2..Len(ret.rows[i]) :
                    /\ CoercedFrom(locals.data[i][j], ret.rows[i][j])
                    /\ CoercionExamples(locals.data[i][j], ret.rows[i][j])

\* one table with 3.14159 rounded, a numeric text parsed, and "abc" replaced
C5_Witness ==
    /\ IsMappingCall
    /\ ret.kind = "table"
    /\ Len(ret.columns) = 3
    /\ \E i \in 1..Len(ret.rows) :
          /\ locals.data[i][3] = Num(314159) /\ ret.rows[i][3] = Num(314000)
          /\ locals.data[i][2] = Txt("2.5") /\ ret.rows[i][2] = Num(250000)
    /\ \E i \in 1..Len(ret.rows) :
          locals.data[i][2] = Txt("abc") /\ Sentinel(ret.rows[i][2])

\* the first cell, trimmed and lower-cased, starts with "overall co attainment"
StartsOverall(row) == StartsWith(Lower(Strip(StrCell(row[1]))), "overall co attainment")

DataRow(row) == ~StartsOverall(row) /\ ~AllNa(row)

\* C6 as stated: no row of the data region whose first cell, trimmed and
\* ignoring case, starts with "overall co attainment" appears in the rows of
\* the table extract_co_mapping returns, and every other non-empty row of
\* the data region does appear, in order.
C6_OverallRowsDropped ==
    (IsMappingCall /\ ret.kind = "table") =>
        /\ locals.data = SelectSeq(locals.region, DataRow)
        /\ Len(ret.rows) = Len(locals.data)
        /\ \A i \in 1..Len(ret.rows) : ret.rows[i][1] = FillNa(locals.data[i][1])

\* the rows of the scenario sheet from the header on (indices 2-6)
ScenarioTail == SubSeq(ScenarioCoPo(E3, E3), 3, 7)

\* C7: for a sheet with header row ["CO","PO1","PO2"] at index 2, data rows
\* ["CO1",3.333,"x"], ["CO2","-",2.667], ["Overall CO Attainment: 3.0"] at
\* indices 3-5 and a "PO Attainment" stop row at index 6, extract_co_mapping
\* with prefix PO returns columns ["CO","PO1","PO2"] and exactly the rows
\* (CO1, 3.33, "-") and (CO2, "-", 2.67), in that order.
C7_Scenario ==
    ( /\ IsMappingCall
      /\ call.prefix = "PO"
      /\ Len(sheet) = 7
      /\ SubSeq(sheet, 3, 7) = ScenarioTail
      /\ ~IsHeaderRow(sheet[1], "PO")
      /\ ~IsHeaderRow(sheet[2], "PO") )
    => /\ ret.kind = "table"
       /\ ret.columns = <<"CO", "PO1", "PO2">>
       /\ ret.rows = << <<Txt("CO1"), Num(333000), Txt("-")>>,
                        <<Txt("CO2"), Txt("-"), Num(267000)>> >>

\* the scenario sheet was extracted, with a near-header and a stop phrase above
\* the header row
C7_Witness ==
    /\ IsMappingCall
    /\ call.prefix = "PO"
    /\ Len(sheet) = 7
    /\ SubSeq(sheet, 3, 7) = ScenarioTail
    /\ sheet[1] = <<Txt("CO"), Txt("x"), Txt("PO1")>>
    /\ sheet[2] = <<Txt("PO Attainment"), NaN, NaN>>
    /\ locals.header_idx = 2
    /\ Len(ret.rows) = 2

IsScan == call.fn = "scan"

\* some cell's text contains the label, letter case respected
HasLabel(row, label) == \E j \in 1..Len(row) : row[j].k = "txt" /\ In(label, row[j].s)

LabelRows == {i \in RowIdx(sheet) : HasLabel(RowAt(sheet, i), call.prefix)}

NumberCols(row) == {j \in 1..Len(row) : row[j].k = "num"}

\* the last numeric cell of the row, absent when it has none
LastNumericOf(row) ==
    IF NumberCols(row) = {} THEN Absent
    ELSE [found |-> TRUE, value |-> row[Max(NumberCols(row))].n]

\* C8: a labeled-value scan ("Attainment Level", "Target Level", "Final
\* attainment level") looks only at the first row, top to bottom, one of whose
\* cells contains the label as text (case-sensitive) and gives the last numeric
\* cell of that row; the result is absent if that row has no numeric cell,
\* even when a later row holds the label and a number, and absent if no row
\* holds the label.
C8_LabeledScan ==
    IsScan =>
        ret = (IF LabelRows = {} THEN Absent ELSE LastNumericOf(RowAt(sheet, Min(LabelRows))))

\* the first label row has no number, a later label row has one, and the
\* result is absent
C8_Witness ==
    /\ IsScan
    /\ LabelRows # {}
    /\ NumberCols(RowAt(sheet, Min(LabelRows))) = {}
    /\ \E i \in LabelRows : NumberCols(RowAt(sheet, i)) # {}
    /\ ret = Absent

IsEvalCall == call.fn = "extract_po_evaluation_table"

\* the workbook held the worksheet: pd.read_excel returned the sheet
ReadSheet == printed = <<>>

\* a cell of the row contains "PO Attainment"
HasMarker(row) == \E j \in 1..Len(row) : NotNa(row[j]) /\ In("PO Attainment", StrCell(row[j]))

\* the non-empty cells of the row from column index c on, trimmed
NonEmptyFrom(row, c) == StripAll(SelectSeq(SubSeq(row, c + 1, Len(row)), HeaderCellKept))

\* C9: extract_po_evaluation_table addresses its rows by fixed offsets from
\* the marker row m, a row containing "PO Attainment": the header is read from
\* row m+3 and the data from row m+4, both from column index 4 on, never from
\* another row or from columns 0-3; with the marker at row 10, header row 13
\* ["CO","","","","PO1","PO2"] and data row 14 ["CO1","","","",75.0,80.0] the
\* result is header ["PO1","PO2"] and data ["75.00","80.00"].
C9_FixedOffsets ==
    (IsEvalCall /\ ReadSheet) =>
        /\ ret.found =>
              /\ HasMarker(RowAt(sheet, ret.marker))
              /\ ret.marker + 4 < Len(sheet)
              /\ ret.header = NonEmptyFrom(RowAt(sheet, ret.marker + 3), 4)
              /\ Len(ret.data) <= Len(ret.header)
              /\ Len(ret.data) = Min({Len(ret.header), Len(sheet[1]) - 4})
              /\ \A j \in 1..Len(ret.data) : ret.data[j] = EvalValue(RowAt(sheet, ret.marker + 4)[4 + j])
        /\ ( /\ Len(sheet) = 15
             /\ \A i \in 0..9 : ~HasMarker(RowAt(sheet, i))
             /\ HasMarker(RowAt(sheet, 10))
             /\ RowAt(sheet, 13) = <<Txt("CO"), Txt(""), Txt(""), Txt(""), Txt("PO1"), Txt("PO2")>>
             /\ RowAt(sheet, 14) = <<Txt("CO1"), Txt(""), Txt(""), Txt(""), Num(75 * Unit), Num(80 * Unit)>> )
           => /\ ret.found
              /\ ret.marker = 10
              /\ ret.header = <<"PO1", "PO2">>
              /\ ret.data = <<"75.00", "80.00">>

\* the scenario was extracted, with another header-like row at m+2
C9_Witness ==
    /\ IsEvalCall
    /\ Len(sheet) = 15
    /\ ret.found
    /\ ret.marker = 10
    /\ NonEmptyFrom(RowAt(sheet, 12), 4) = <<"PO9">>
    /\ ret.header = <<"PO1", "PO2">>
    /\ ret.data = <<"75.00", "80.00">>

\* the canonical name of the first column
Canonical == IF IsMappingCall THEN "CO" ELSE "Course Outcomes"

\* C10 as stated: the column names of every table returned by
\* extract_co_mapping or extract_co_pso_mapping are pairwise distinct, and the
\* first column name is the canonical label ("CO", "Course Outcomes") whatever
\* text or empty cell occupies the first column of the header row.
C10_DistinctCanonicalColumns ==
    TableReturned =>
        /\ \A i, j \in 1..Len(ret.columns) : i # j => ret.columns[i] # ret.columns[j]
        /\ ret.columns[1] = Canonical

\* C14: when extract_co_mapping found a header row and no row of the data
\* region is left after filtering (the header is the last row, the stop row
\* follows the header, or only empty and "overall co attainment" rows lie
\* between), it returns a table with the normalized columns and no rows
C14_EmptyRegionGivesEmptyTable ==
    (IsMappingCall /\ locals.header_idx # None /\ locals.data = <<>>) =>
        /\ ret.kind = "table"
        /\ ret.columns = locals.header
        /\ ret.rows = <<>>

\* the length of the run of non-empty cells the row has from column index c on
RECURSIVE RunFrom(_, _)
RunFrom(row, c) ==
    IF c < Len(row) /\ HeaderCellKept(row[c + 1]) THEN 1 + RunFrom(row, c + 1) ELSE 0

\* C19: whenever extract_po_evaluation_table returns a result, the header is
\* the contiguous run of non-empty cells of the header row that starts at
\* column index 4 and ends at the first empty cell, the data has the length of
\* the header, and the k-th data value is read from the column of the k-th
\* header, column 4+k, also when the header row has an empty cell between two
\* non-empty ones
C19_HeaderRunAligned ==
    (IsEvalCall /\ ret.found) =>
        /\ Len(ret.header) = RunFrom(RowAt(sheet, ret.marker + 3), 4)
        /\ Len(ret.data) = Len(ret.header)
        /\ \A k \in 1..Len(ret.header) :
              /\ ret.header[k] = Strip(StrCell(RowAt(sheet, ret.marker + 3)[4 + k]))
              /\ ret.data[k] = EvalValue(RowAt(sheet, ret.marker + 4)[4 + k])

C20_ExtractorsSilent ==
    call.fn \in {"extract_co_mapping", "extract_co_pso_mapping",
                 "extract_po_evaluation_table", "extract_pso_evaluation_table"} => printed = <<>>

(***************************************************************************)
(* Properties of the upload handler                                        *)
(***************************************************************************)
\* the worksheet is there and none of its rows satisfies the header predicate
NoHeaderIn(ws, prefix) ==
    ws.present /\ \A i \in 1..Len(ws.rows) : ~IsHeaderRow(ws.rows[i], prefix)

HeaderError(sheet_name, prefix) ==
    "Could not locate CO-" \o prefix \o " header in '" \o sheet_name \o "' sheet."

\* the request stages a readable workbook whose "CO Attainment" sheet, or
\* whose "PSO Attainment" sheet, holds no header row
HeaderlessUpload(c) ==
    /\ c.fn = "upload"
    /\ c.workbook \in DOMAIN Workbooks
    /\ ~SaveRaises(SecureMemo[c.filename])
    /\ Workbooks[c.workbook].readable
    /\ \/ NoHeaderIn(Workbooks[c.workbook].co, "PO")
       \/ NoHeaderIn(Workbooks[c.workbook].pso, "PSO")

\* the two statements of read_excel before the PSO extraction completed
PsoExtractionReached(wb) ==
    /\ ReadMapping(wb.co, "CO Attainment", "PO").kind = "table"
    /\ ReadSummary(wb.co, "CO Attainment").kind # "raise"

\* C3: when no row of the "CO Attainment" sheet (prefix PO) or of the "PSO
\* Attainment" sheet (prefix PSO) satisfies the header predicate,
\* extract_co_mapping raises an error that names the sheet and the table
\* instead of returning a table, read_excel propagates it, and the upload
\* request ends with an error response: create_word_report is not invoked and
\* the request writes no report.
C3_MissingHeaderFailsRequest ==
    [][ HeaderlessUpload(call') =>
          /\ ret'.kind = "raise"
          /\ response'.status = "error"
          /\ response'.message = ret'.msg
          /\ ~assembled'.invoked
          /\ reports' = reports
          /\ NoHeaderIn(Workbooks[call'.workbook].co, "PO")
                => response'.message = HeaderError("CO Attainment", "PO")
          /\ (NoHeaderIn(Workbooks[call'.workbook].pso, "PSO") /\ PsoExtractionReached(Workbooks[call'.workbook]))
                => response'.message = HeaderError("PSO Attainment", "PSO")
      ]_vars

\* a request whose PSO sheet has no header ended with the error naming that
\* sheet, its input staged, and the report an earlier request saved under the
\* same name still that of the earlier request
C3_Witness ==
    /\ HeaderlessUpload(call)
    /\ PsoExtractionReached(Workbooks[call.workbook])
    /\ response = ErrorResponse(HeaderError("PSO Attainment", "PSO"))
    /\ ~assembled.invoked
    /\ PathJoin(UPLOAD_FOLDER, SecureMemo[call.filename]) \in DOMAIN uploads
    /\ uploads[PathJoin(UPLOAD_FOLDER, SecureMemo[call.filename])] = call.workbook
    /\ PathJoin(REPORT_FOLDER, OutNameMemo[call.filename]) \in DOMAIN reports
    /\ reports[PathJoin(REPORT_FOLDER, OutNameMemo[call.filename])].workbook # call.workbook

\* the paths of the request a step handles
InPathOf(c) == PathJoin(UPLOAD_FOLDER, SecureMemo[c.filename])

OutPathOf(c) == PathJoin(REPORT_FOLDER, OutNameMemo[c.filename])

IsUploadOfFile(c) == c.fn = "upload" /\ c.filename # ""

\* C11: the staged-input path and the report-output path of an upload request
\* are unique to that request: a request stages its input at a path no other
\* request staged at, and writes its report at a path no other request wrote
C11_PathsUniquePerRequest ==
    [][ IsUploadOfFile(call') =>
          /\ InPathOf(call') \notin DOMAIN uploads
          /\ (response'.status = "success" => OutPathOf(call') \notin DOMAIN reports) ]_vars

\* the outcome is an error response: the handler's own JSON error, or the
\* server's answer to an exception the handler did not catch
IsErrorResponse(r) == r.status \in {"error", "500"}

IsSuccessResponse(r) == r.status = "success" /\ r.filename # ""

\* the report of the request c lies in the report folder under the file name
\* the response r returns, made from the input c staged
ReportSavedFor(c, r, folder) ==
    /\ PathJoin(REPORT_FOLDER, r.filename) \in DOMAIN folder
    /\ folder[PathJoin(REPORT_FOLDER, r.filename)].excel_file = InPathOf(c)
    /\ folder[PathJoin(REPORT_FOLDER, r.filename)].workbook = c.workbook

\* C12: every upload request ends in exactly one of two outcomes, a success
\* response or an error response; success is given only after read_excel
\* returned the three tables and create_word_report saved the report under the
\* returned file name; a request without a file part gets an error response
\* with nothing staged, extracted or assembled
C12_SuccessOrError ==
    [][ call'.fn = "upload" =>
          /\ IsSuccessResponse(response') # IsErrorResponse(response')
          /\ IsSuccessResponse(response') =>
                /\ ret'.kind = "tables"
                /\ assembled' = Invoked(InPathOf(call'), PathJoin(REPORT_FOLDER, response'.filename))
                /\ InPathOf(call') \in DOMAIN uploads'
                /\ ReportSavedFor(call', response', reports')
          /\ call'.filename = "" =>
                /\ response' = ErrorResponse("No file uploaded.")
                /\ uploads' = uploads
                /\ reports' = reports
                /\ ret' = NoCall
                /\ ~assembled'.invoked
      ]_vars

\* a request whose file name had to be secured ended in success, its input
\* staged and its report saved under the returned name
C12_Witness ==
    /\ call.fn = "upload"
    /\ IsSuccessResponse(response)
    /\ ReportSavedFor(call, response, reports)
    /\ call.filename # SecureMemo[call.filename]
    /\ uploads[InPathOf(call)] = call.workbook

\* the request stages a readable workbook that lacks the "CO Attainment" or the
\* "PSO Attainment" worksheet
MissingSheetUpload(c) ==
    /\ c.fn = "upload"
    /\ c.workbook \in DOMAIN Workbooks
    /\ ~SaveRaises(SecureMemo[c.filename])
    /\ Workbooks[c.workbook].readable
    /\ ~Workbooks[c.workbook].co.present \/ ~Workbooks[c.workbook].pso.present

SheetError(sheet_name) == "Worksheet named '" \o sheet_name \o "' not found"

\* C16: when the "CO Attainment" or the "PSO Attainment" worksheet is missing
\* from the uploaded file, the extraction aborts with an error that reaches the
\* request boundary: the response is an error response carrying the error's
\* message, no table of the file is handed to create_word_report and the
\* report folder is as it was
C16_MissingSheetFailsRequest ==
    [][ MissingSheetUpload(call') =>
          /\ ret'.kind = "raise"
          /\ ret'.co_po = NoTable /\ ret'.po_att = NoTable /\ ret'.co_pso = NoTable
          /\ response' = ErrorResponse(ret'.msg)
          /\ response'.message \in {SheetError("CO Attainment"), SheetError("PSO Attainment")}
          /\ ~Workbooks[call'.workbook].co.present => response'.message = SheetError("CO Attainment")
          /\ ~assembled'.invoked
          /\ reports' = reports
      ]_vars

\* a request whose file has no "PSO Attainment" worksheet ended with the error
\* naming it, after the "CO Attainment" tables were extracted, and the report
\* an earlier request saved under the same name is still in place
C16_Witness ==
    /\ MissingSheetUpload(call)
    /\ Workbooks[call.workbook].co.present
    /\ response = ErrorResponse(SheetError("PSO Attainment"))
    /\ ~assembled.invoked
    /\ OutPathOf(call) \in DOMAIN reports
    /\ InPathOf(call) \in DOMAIN uploads

\* the first cell of a returned row is, trimmed and in lower case, "course"
IsCourseRow(row) == Lower(Strip(StrCell(row[1]))) = "course"

\* C18: the CO-PSO mapping table a report request uses, the third table
\* read_excel returns, from the "PSO Attainment" sheet, has no row whose first
\* cell, trimmed and case-insensitive, is "course"
C18_ReportTableHasNoCourseRow ==
    (call.fn = "upload" /\ ret # NoCall /\ ret.kind = "tables") =>
        \A i \in 1..Len(ret.co_pso.rows) : ~IsCourseRow(ret.co_pso.rows[i])

ScalarLabels == <<"Attainment Level", "Target Level", "Final attainment level">>

\* the labeled value of a worksheet: the last number of the first row holding
\* the label, absent without such a row or without a number on it
ScalarIn(ws, label) ==
    IF \A i \in 1..Len(ws.rows) : ~HasLabel(ws.rows[i], label) THEN Absent
    ELSE LastNumericOf(ws.rows[Min({i \in 1..Len(ws.rows) : HasLabel(ws.rows[i], label)})])

\* the request staged a workbook, read_excel returned its three tables, and
\* the workbook holds the three worksheets of marks
ExtractedUpload ==
    /\ call.fn = "upload"
    /\ ret # NoCall
    /\ ret.kind = "tables"
    /\ \A i \in 1..3 : Workbooks[call.workbook].marks[i].present

\* the three scalar cells of the report the request saved
ScalarTexts(d) == <<d.external, d.internal, d.exit_survey>>

SavedDocument == reports[OutPathOf(call)].doc

\* what the report shows in place of an absent scalar
Placeholders == <<"None", "None", "-">>

ExpectedText(c) ==
    IF c.k = "nan" THEN "-"
    ELSE IF c.k = "num" THEN Format2(c.n)
    ELSE IF PyFloat(c.s).ok THEN Format2(PyFloat(c.s).n) ELSE PyStrip(c.s)

ExpectedScalar(found) == IF found.found THEN Format2(found.value) ELSE "-"

\* the first row of the worksheet that has a "Course" cell and a row after it
CourseRowOf(ws) == Min({i \in 1..(Len(ws.rows) - 1) : CoursePred(ws.rows[i])})

\* C15: on both summary-value paths, the labeled values of the reverse scans
\* and the values of the PO / PSO evaluation rows, a numeric value is rendered
\* with exactly two decimals, a value that is not numeric as its trimmed text,
\* and an absent value as "-"
C15_SummaryValuesRendered ==
    (ExtractedUpload /\ response.status = "success") =>
        /\ \A i \in 1..3 :
              ScalarTexts(SavedDocument)[i]
                  = ExpectedScalar(ScalarIn(Workbooks[call.workbook].marks[i], ScalarLabels[i]))
        /\ SavedDocument.pso_eval.shown =>
              \A k \in 1..Len(SavedDocument.pso_eval.data) :
                  SavedDocument.pso_eval.data[k]
                      = ExpectedText(Workbooks[call.workbook].pso.rows[CourseRowOf(Workbooks[call.workbook].pso) + 1]
                                        [CourseIndex(Workbooks[call.workbook].pso.rows[CourseRowOf(Workbooks[call.workbook].pso)]) + k])

\* the request ended without success
FailedUpload(c, r) == c.fn = "upload" /\ r.status # "success"

\* an extraction step (read_excel) or an assembly step (create_word_report)
\* of the request raised
RaisedInside(tables, made) ==
    \/ tables # NoCall /\ tables.kind = "raise"
    \/ made.invoked

\* C21: a failed upload request leaves the report folder unchanged: no report
\* file is created or overwritten when an extraction or assembly step raises,
\* a report an earlier request saved under the same name keeps its contents,
\* and the uploaded input stays staged in the upload folder
C21_FailedUploadKeepsReports ==
    [][ FailedUpload(call', response') =>
          /\ reports' = reports
          /\ RaisedInside(ret', assembled') =>
                /\ InPathOf(call') \in DOMAIN uploads'
                /\ uploads'[InPathOf(call')] = call'.workbook
      ]_vars

\* create_word_report raised for a request, whose input is staged, while the
\* report an earlier request saved under the same name is that of the earlier
\* request still
C21_Witness ==
    /\ FailedUpload(call, response)
    /\ assembled.invoked
    /\ response.status = "error"
    /\ uploads[InPathOf(call)] = call.workbook
    /\ OutPathOf(call) \in DOMAIN reports
    /\ reports[OutPathOf(call)].workbook # call.workbook
    /\ reports[OutPathOf(call)].doc # NoDocument

====
